---- MODULE Spec2Model ----
(***************************************************************************)
(* Model of the AQI backend (src/main.py): the snapshot builder            *)
(* generate_heatmap, the hourly refresh loop started at startup, the       *)
(* /heatmap handler, and the /aqi handler with its helpers.                *)
(***************************************************************************)
EXTENDS Integers, Sequences, FiniteSets, TLC

\* ------------------------------------------------------------------ bounds
MaxTable == 2       \* entries of district_coords.json
MaxHandlers == 2    \* /heatmap requests served by thread-pool workers
MaxItems == 2       \* items of a pollutant payload's "list"

\* --------------------------------------------------------------- constants
MaxSeverity == 5    \* the largest key of get_color's mapping
None == -1          \* Python's None where an integer is expected
Timer == 0          \* builder id of the refresh loop; handlers are 1..MaxHandlers
Fallback == "No health advice available."

Handlers == 1..MaxHandlers
Builders == {Timer} \cup Handlers

\* every value res.json()["list"][0]["main"]["aqi"] is modelled to take:
\* the five mapped severities and one unmapped integer on either side
Severities == 0..(MaxSeverity + 1)

VARIABLES
    table,        \* district_coords.json: [state, entries]
    upstream,     \* what the pollutant service reports for each entry
    artifact,     \* aqi_heatmap.html: [state, by, markers]
    history,      \* the history log: rows (place, date, severity)
    build,        \* build[b]: the invocation of generate_heatmap by builder b
    timerPc,      \* position of refresh_loop
    timerBuilds,  \* invocations of generate_heatmap by refresh_loop in progress
    lastExc,      \* the exception logged by the loop's latest finished build
    hPc,          \* hPc[h]: position of /heatmap handler h
    hSaw,         \* hSaw[h]: what os.path.exists answered
    hRan,         \* hRan[h]: builds run by handler h for its request
    hResp,        \* hResp[h]: the response of handler h
    aq            \* the /aqi request being served

vars == <<table, upstream, artifact, history, build, timerPc, timerBuilds,
          lastExc, hPc, hSaw, hRan, hResp, aq>>

heatVars == <<table, upstream, artifact, history, build, timerPc, timerBuilds,
              lastExc, hPc, hSaw, hRan, hResp>>

\* ------------------------------------------------------------- get_color
get_color(aqi) ==
    CASE aqi = 1 -> "green"
      [] aqi = 2 -> "yellow"
      [] aqi = 3 -> "orange"
      [] aqi = 4 -> "red"
      [] aqi = 5 -> "purple"
      [] OTHER -> "gray"

\* Python truthiness of the value get_aqi returned (`if aqi:`)
Truthy(aqi) == aqi # None /\ aqi # 0

\* --------------------------------------------------------------- get_aqi
\* one call of the pollutant service: it answers, or the request fails
ReaderOutcomes(sev) == {[ok |-> TRUE, aqi |-> sev], [ok |-> FALSE, aqi |-> None]}

get_aqi(outcome) == IF outcome.ok THEN outcome.aqi ELSE None

\* ------------------------------------------------------ generate_heatmap
\* variant: `except OSError`, which lets a parsing error leave the build
CatchesOSError(exc) == exc \in {"FileNotFoundError", "OSError"}

\* variant: `except ValueError`, which lets a missing file leave the build
CatchesValueError(exc) == exc \in {"JSONDecodeError", "ValueError"}

\* `except Exception` of generate_heatmap: which exceptions it catches
Catches(exc) == TRUE

\* variant: the loop is left (`break`) at the first read that returns None
NextEntryBreak(i, aqi) == IF aqi = None THEN Len(table.entries) + 1 ELSE i + 1

\* the `for` of line 76 goes on to the next entry whatever get_aqi returned
NextEntry(i, aqi) == i + 1

\* lines 80-88: the CircleMarker, its popup f"{city} - AQI: {aqi}" and colour
Marker(place, aqi) ==
    [place |-> place, popup |-> <<place, " - AQI: ", aqi>>, color |-> get_color(aqi)]

NoBuild ==
    [pc |-> "off", i |-> 0, m |-> <<>>, reads |-> <<>>, saves |-> 0, exc |-> "none"]

StartBuild == [NoBuild EXCEPT !.pc = "open"]

\* an exception raised inside the try block of build b
Throw(b, exc) ==
    build' = [build EXCEPT ![b].pc = IF Catches(exc) THEN "ret" ELSE "raised",
                           ![b].exc = exc]

\* lines 71-74: open and parse the table, create the map
BuildOpen(b) ==
    /\ build[b].pc = "open"
    /\ IF table.state = "absent" THEN Throw(b, "FileNotFoundError")
       ELSE IF table.state = "malformed" THEN Throw(b, "JSONDecodeError")
       ELSE build' = [build EXCEPT ![b].pc = "iter", ![b].i = 1]
    /\ UNCHANGED <<table, upstream, artifact, history, timerPc, timerBuilds,
                   lastExc, hPc, hSaw, hRan, hResp, aq>>

\* lines 76-89: one iteration of the loop over the table
BuildIter(b) ==
    /\ build[b].pc = "iter"
    /\ build[b].i <= Len(table.entries)
    /\ LET e == table.entries[build[b].i] IN
       IF ~e.ok THEN Throw(b, "ValueError")
       ELSE \E o \in ReaderOutcomes(upstream[build[b].i]) :
              LET aqi == get_aqi(o) IN
              build' = [build EXCEPT
                  ![b].reads = Append(@, [place |-> e.place, aqi |-> aqi]),
                  ![b].m = IF Truthy(aqi) THEN Append(@, Marker(e.place, aqi)) ELSE @,
                  ![b].i = NextEntry(@, aqi)]
    /\ UNCHANGED <<table, upstream, artifact, history, timerPc, timerBuilds,
                   lastExc, hPc, hSaw, hRan, hResp, aq>>

\* m.save opens the file for writing, which truncates it, and then renders
\* and writes the page; either step may fail
SaveOutcomes == {"ok", "open fails", "render fails"}

\* lines 91-104: legend and m.save(HEATMAP_FILE)
BuildSave(b) ==
    /\ build[b].pc = "iter"
    /\ build[b].i > Len(table.entries)
    /\ \E o \in SaveOutcomes :
         CASE o = "ok" ->
                /\ artifact' = [state |-> "full", by |-> b, markers |-> build[b].m]
                /\ build' = [build EXCEPT ![b].pc = "ret", ![b].saves = @ + 1]
           [] o = "open fails" ->
                /\ artifact' = artifact
                /\ Throw(b, "OSError")
           [] o = "render fails" ->
                /\ artifact' = [state |-> "empty", by |-> b, markers |-> <<>>]
                /\ Throw(b, "RenderError")
    /\ UNCHANGED <<table, upstream, history, timerPc, timerBuilds,
                   lastExc, hPc, hSaw, hRan, hResp, aq>>

\* ----------------------------------------------------------- refresh_loop
\* variant: a periodic timer that fires again while its last build runs
TimerReadyPeriodic == timerPc \in {"ready", "building"}

\* the loop calls generate_heatmap only from the top of `while True`
TimerReady == timerPc = "ready"

\* lines 112-114: start a cycle
TimerCycle ==
    /\ TimerReady
    /\ timerPc' = "building"
    /\ timerBuilds' = timerBuilds + 1
    /\ build' = [build EXCEPT ![Timer] = StartBuild]
    /\ UNCHANGED <<table, upstream, artifact, history, lastExc,
                   hPc, hSaw, hRan, hResp, aq>>

\* line 115: generate_heatmap is over. It returned, and the loop awaits
\* asyncio.sleep(3600); had it raised, the task running refresh_loop would end
TimerReturn ==
    /\ timerPc = "building"
    /\ build[Timer].pc \in {"ret", "raised"}
    /\ timerPc' = IF build[Timer].pc = "raised" THEN "dead" ELSE "sleeping"
    /\ timerBuilds' = timerBuilds - 1
    /\ lastExc' = build[Timer].exc
    /\ build' = [build EXCEPT ![Timer] = NoBuild]
    /\ UNCHANGED <<table, upstream, artifact, history, hPc, hSaw, hRan, hResp, aq>>

\* the sleep elapsed: back to the top of the loop
TimerWake ==
    /\ timerPc = "sleeping"
    /\ timerPc' = "ready"
    /\ UNCHANGED <<table, upstream, artifact, history, build, timerBuilds,
                   lastExc, hPc, hSaw, hRan, hResp, aq>>

\* ------------------------------------------------------------ get_heatmap
\* refresh_loop runs on the event loop and yields it only in asyncio.sleep;
\* requests are dispatched to, and responses sent from, the event loop
EventLoopFree == timerPc \in {"sleeping", "dead"}

NoResp == [status |-> 0, state |-> "none", by |-> None, markers |-> <<>>]

\* FileResponse(HEATMAP_FILE): the file is opened when the response is sent
FileResponse(art) ==
    IF art.state = "none"
    THEN [status |-> 500, state |-> "none", by |-> None, markers |-> <<>>]
    ELSE [status |-> 200, state |-> art.state, by |-> art.by, markers |-> art.markers]

\* a GET /heatmap is handed to a worker thread
HeatmapRequest(h) ==
    /\ hPc[h] = "idle"
    /\ EventLoopFree
    /\ hPc' = [hPc EXCEPT ![h] = "check"]
    /\ UNCHANGED <<table, upstream, artifact, history, build, timerPc, timerBuilds,
                   lastExc, hSaw, hRan, hResp, aq>>

\* lines 125-126: os.path.exists, and the call of generate_heatmap
HeatmapCheck(h) ==
    /\ hPc[h] = "check"
    /\ hSaw' = [hSaw EXCEPT ![h] = artifact.state # "none"]
    /\ IF artifact.state = "none"
       THEN /\ build' = [build EXCEPT ![h] = StartBuild]
            /\ hRan' = [hRan EXCEPT ![h] = @ + 1]
            /\ hPc' = [hPc EXCEPT ![h] = "building"]
       ELSE /\ hPc' = [hPc EXCEPT ![h] = "respond"]
            /\ UNCHANGED <<build, hRan>>
    /\ UNCHANGED <<table, upstream, artifact, history, timerPc, timerBuilds,
                   lastExc, hResp, aq>>

\* line 127: generate_heatmap is over; had it raised, the request fails
HeatmapBuilt(h) ==
    /\ hPc[h] = "building"
    /\ build[h].pc \in {"ret", "raised"}
    /\ IF build[h].pc = "raised"
       THEN /\ hPc' = [hPc EXCEPT ![h] = "done"]
            /\ hResp' = [hResp EXCEPT ![h] = [NoResp EXCEPT !.status = 500]]
       ELSE /\ hPc' = [hPc EXCEPT ![h] = "respond"]
            /\ UNCHANGED hResp
    /\ build' = [build EXCEPT ![h] = NoBuild]
    /\ UNCHANGED <<table, upstream, artifact, history, timerPc, timerBuilds,
                   lastExc, hSaw, hRan, aq>>

\* line 127: the FileResponse is sent
HeatmapRespond(h) ==
    /\ hPc[h] = "respond"
    /\ EventLoopFree
    /\ hResp' = [hResp EXCEPT ![h] = FileResponse(artifact)]
    /\ hPc' = [hPc EXCEPT ![h] = "done"]
    /\ UNCHANGED <<table, upstream, artifact, history, build, timerPc, timerBuilds,
                   lastExc, hSaw, hRan, aq>>

\* ------------------------------------------------------- get_coordinates
GeoOutcomes == {"found", "no result", "raises"}

NoCoords == <<>>

\* variant: an error of the geocoder answered with default coordinates
get_coordinates_default(outcome) ==
    IF outcome = "no result" THEN NoCoords ELSE <<28, 77>>

\* lines 35-43: the coordinates, or None when the geocoder finds nothing or raises
get_coordinates(outcome) == IF outcome = "found" THEN <<28, 77>> ELSE NoCoords

\* ------------------------------------------------ generate_health_advice
GeminiOutcomes == {"ok", "raises"}

\* lines 60-67: the stripped text of the model's answer to the prompt naming
\* aqi_val, or the fallback when generate_content raises
generate_health_advice(aqi_val, outcome) ==
    IF outcome = "ok" THEN [text |-> "generated", about |-> aqi_val]
    ELSE [text |-> Fallback, about |-> None]

\* ----------------------------------------------------------- get_aqi_json
ItemAqis == {1, MaxSeverity}

Items ==
    {[ok |-> TRUE, dt |-> 0, aqi |-> a] : a \in ItemAqis}
    \cup {[ok |-> FALSE, dt |-> 0, aqi |-> None]}

ItemSeqs == UNION {[1..k -> Items] : k \in 0..MaxItems}

\* what requests.get(url).json() meets: no connection, a body that is not
\* JSON, a JSON object without "list" (an error body), or one with a "list"
Payloads ==
    {[kind |-> k, items |-> <<>>] : k \in {"unreachable", "not json", "no list"}}
    \cup {[kind |-> "list", items |-> d] : d \in ItemSeqs}

\* requests.get(url).json() raises
FetchRaises(p) == p.kind \in {"unreachable", "not json"}

\* .get("list", [])
ListOf(p) == IF p.kind = "list" THEN p.items ELSE <<>>

\* the comprehension of lines 143-151 raises KeyError on an item without
\* "dt" or "main"
FrameRaises(data) == \E i \in 1..Len(data) : ~data[i].ok

\* datetime.utcfromtimestamp(dt).isoformat() and the aqi of every item
Frame(data) ==
    [i \in 1..Len(data) |-> [datetime |-> <<"iso", data[i].dt>>, aqi |-> data[i].aqi]]

\* line 154: the aqi of the last row of current + forecast, or None
LatestAqi(cur, fore) ==
    LET combined == cur \o fore IN
    IF combined = <<>> THEN None ELSE combined[Len(combined)].aqi

NoAdvice == [text |-> "", about |-> None]

AqResp(status, cur, fore, advice, error) ==
    [status |-> status, current_trend |-> cur, forecast |-> fore,
     gemini_advice |-> advice, error |-> error]

\* no /aqi request has arrived
AqIdle ==
    [pc |-> "idle", coords |-> <<>>, forecast_data |-> <<>>, current_data |-> <<>>,
     latest_aqi |-> None, adviceArg |-> None, lookups |-> 0, adviceCalls |-> 0,
     geo |-> "none", gemini |-> "none", resp |-> [status |-> 0, current_trend |-> <<>>,
                               forecast |-> <<>>, gemini_advice |-> NoAdvice, error |-> ""]]

heatUnchanged == UNCHANGED heatVars

\* a GET /aqi?city=... arrives
AqiRequest ==
    /\ aq.pc \in {"idle", "done"}
    /\ aq' = [AqIdle EXCEPT !.pc = "resolve"]
    /\ heatUnchanged

\* lines 131-134
AqiResolve ==
    /\ aq.pc = "resolve"
    /\ \E g \in GeoOutcomes :
         LET coords == get_coordinates(g) IN
         aq' = IF coords = NoCoords
               THEN [aq EXCEPT !.geo = g, !.pc = "done",
                        !.resp = AqResp(404, <<>>, <<>>, NoAdvice, "Location not found")]
               ELSE [aq EXCEPT !.geo = g, !.coords = coords, !.pc = "forecast"]
    /\ heatUnchanged

\* line 140
AqiForecast ==
    /\ aq.pc = "forecast"
    /\ \E p \in Payloads :
         aq' = IF FetchRaises(p)
               THEN [aq EXCEPT !.lookups = @ + 1, !.pc = "done",
                        !.resp = AqResp(500, <<>>, <<>>, NoAdvice, p.kind)]
               ELSE [aq EXCEPT !.lookups = @ + 1, !.forecast_data = ListOf(p),
                        !.pc = "current"]
    /\ heatUnchanged

\* line 141
AqiCurrent ==
    /\ aq.pc = "current"
    /\ \E p \in Payloads :
         aq' = IF FetchRaises(p)
               THEN [aq EXCEPT !.lookups = @ + 1, !.pc = "done",
                        !.resp = AqResp(500, <<>>, <<>>, NoAdvice, p.kind)]
               ELSE [aq EXCEPT !.lookups = @ + 1, !.current_data = ListOf(p),
                        !.pc = "frames"]
    /\ heatUnchanged

\* lines 143-154
AqiFrames ==
    /\ aq.pc = "frames"
    /\ aq' = IF FrameRaises(aq.current_data) \/ FrameRaises(aq.forecast_data)
             THEN [aq EXCEPT !.pc = "done",
                      !.resp = AqResp(500, <<>>, <<>>, NoAdvice, "KeyError")]
             ELSE [aq EXCEPT !.pc = "advise",
                      !.latest_aqi = LatestAqi(Frame(aq.current_data),
                                               Frame(aq.forecast_data))]
    /\ heatUnchanged

\* lines 155-162
AqiAdvise ==
    /\ aq.pc = "advise"
    /\ \E g \in GeminiOutcomes :
         aq' = [aq EXCEPT !.adviceCalls = @ + 1, !.adviceArg = aq.latest_aqi,
                   !.gemini = g, !.pc = "done",
                   !.resp = AqResp(200, Frame(aq.current_data), Frame(aq.forecast_data),
                                   generate_health_advice(aq.latest_aqi, g), "")]
    /\ heatUnchanged

\* ---------------------------------------------------------- initial state
EntrySeqs ==
    UNION {{[i \in 1..k |-> [place |-> i, ok |-> f[i]]] : f \in [1..k -> BOOLEAN]}
           : k \in 0..MaxTable}

Tables ==
    {[state |-> s, entries |-> <<>>] : s \in {"absent", "malformed"}}
    \cup {[state |-> "ok", entries |-> e] : e \in EntrySeqs}

NoArtifact == [state |-> "none", by |-> None, markers |-> <<>>]

\* the file a previous run of the process left behind
StaleArtifact == [state |-> "full", by |-> None, markers |-> <<>>]

HeatInit ==
    /\ table \in Tables
    /\ upstream \in [1..Len(table.entries) -> Severities]
    /\ artifact \in {NoArtifact, StaleArtifact}
    /\ history = <<>>
    /\ build = [b \in Builders |-> NoBuild]
    /\ timerPc = "ready"
    /\ timerBuilds = 0
    /\ lastExc = "none"
    /\ hPc = [h \in Handlers |-> "idle"]
    /\ hSaw = [h \in Handlers |-> FALSE]
    /\ hRan = [h \in Handlers |-> 0]
    /\ hResp = [h \in Handlers |-> NoResp]

Init == HeatInit /\ aq = AqIdle

\* the whole service is explored over the tables of at most one entry, whose
\* place the pollutant service reports at the worst severity
ServeInit ==
    /\ Init
    /\ Len(table.entries) <= 1
    /\ \A i \in 1..Len(table.entries) : upstream[i] = MaxSeverity

TimerNext ==
    \/ TimerCycle
    \/ BuildOpen(Timer)
    \/ BuildIter(Timer)
    \/ BuildSave(Timer)
    \/ TimerReturn
    \/ TimerWake

HandlerNext ==
    \E h \in Handlers :
        \/ HeatmapRequest(h)
        \/ HeatmapCheck(h)
        \/ BuildOpen(h)
        \/ BuildIter(h)
        \/ BuildSave(h)
        \/ HeatmapBuilt(h)
        \/ HeatmapRespond(h)

Next == TimerNext \/ HandlerNext

\* the /aqi handler shares no state with the builders
AqiInit ==
    /\ Init
    /\ table.state = "absent"
    /\ artifact = NoArtifact

AqiNext ==
    \/ AqiRequest
    \/ AqiResolve
    \/ AqiForecast
    \/ AqiCurrent
    \/ AqiFrames
    \/ AqiAdvise

\* the whole program
Spec == Init /\ [][Next \/ AqiNext]_vars

\* the refresh loop alone, over every table and every report of the service
BuildSpec == Init /\ [][TimerNext]_vars

\* the refresh loop and the /heatmap handlers
ServeSpec == ServeInit /\ [][Next]_vars

\* the refresh loop is a task of the event loop: it is scheduled whenever it
\* can take a step, and its sleep ends
LiveSpec == BuildSpec /\ WF_vars(TimerNext)

\* the /aqi handler alone
AqiSpec == AqiInit /\ [][AqiNext]_vars

\* ================================================================ claims
InProgress(b) == build[b].pc \in {"open", "iter"}

PlacesOf(reads) == [k \in 1..Len(reads) |-> reads[k].place]

TablePlaces(n) == [k \in 1..n |-> table.entries[k].place]

\* the calendar date of a history row
Today == "today"

\* one marker for every read that returned an integer
RECURSIVE MarkersFor(_)
MarkersFor(reads) ==
    IF reads = <<>> THEN <<>>
    ELSE IF Head(reads).aqi # None
         THEN <<Marker(Head(reads).place, Head(reads).aqi)>> \o MarkersFor(Tail(reads))
         ELSE MarkersFor(Tail(reads))

WellFormedTable ==
    table.state = "ok" /\ \A k \in 1..Len(table.entries) : table.entries[k].ok

\* C1: an /aqi request whose place does not resolve (the geocoder finds
\* nothing, or raises) ends with a 404 response, and makes no pollutant
\* lookup and no advisory call
C1_UnresolvedIs404 ==
    aq.geo \in {"no result", "raises"} =>
        /\ aq.pc = "done"
        /\ aq.resp.status = 404
        /\ aq.lookups = 0
        /\ aq.adviceCalls = 0

C1_Witness == aq.pc = "done" /\ aq.geo = "raises" /\ aq.resp.status = 404

\* C2: a /heatmap handler that found no artifact ran exactly one build and
\* answers with the artifact of that build; one that found the artifact ran
\* no build
C2_HeatmapServesOwnBuild ==
    \A h \in Handlers :
        hPc[h] = "done" =>
            IF hSaw[h] THEN hRan[h] = 0
            ELSE /\ hRan[h] = 1
                 /\ hResp[h].status = 200
                 /\ hResp[h].state = "full"
                 /\ hResp[h].by = h

\* C3: the refresh loop never ends, whatever a build cycle raises, and it
\* starts a build cycle again and again
C3_RefreshLoopRunsForever ==
    [](timerPc # "dead") /\ []<>(timerPc = "building")

C3_Witness == timerPc = "building" /\ lastExc = "JSONDecodeError"

\* C4: at most one build started by the refresh loop is in progress at any
\* time (the witness: builds of two handlers in progress together with the
\* loop's build)
C4_TimerBuildsNeverOverlap ==
    /\ timerBuilds <= 1
    /\ timerBuilds = 1 <=> timerPc = "building"

C4_Witness ==
    /\ InProgress(Timer)
    /\ \E g, h \in Handlers : g # h /\ InProgress(g) /\ InProgress(h)

\* C5: an /aqi request whose place resolves never ends with a 500 response
C5_ResolvedNeverFails ==
    (aq.pc = "done" /\ aq.geo = "found") => aq.resp.status = 200

\* C6: the markers of a build are, in order, one marker for every read that
\* returned an integer (0 and 6 included), labelled with the place and the
\* integer and coloured by the mapping; a read that returned None adds none
C6_MarkerForEveryInteger ==
    \A b \in Builders : build[b].m = MarkersFor(build[b].reads)

\* C7: the history log holds a row (place, today, severity) for every read
\* of a build that returned a severity
C7_BuildAppendsHistory ==
    \A b \in Builders : \A k \in 1..Len(build[b].reads) :
        build[b].reads[k].aqi # None =>
            \E j \in 1..Len(history) :
                history[j] = [place |-> build[b].reads[k].place, date |-> Today,
                              aqi |-> build[b].reads[k].aqi]

\* C8: while the coordinate table is absent, no build reads the pollutant
\* service or writes the artifact, every build returns to its caller with
\* the FileNotFoundError caught, and the loop goes on
C8_AbsentTableSkipsBuild ==
    table.state = "absent" =>
        /\ artifact \in {NoArtifact, StaleArtifact}
        /\ timerPc # "dead"
        /\ \A b \in Builders :
              /\ build[b].pc \in {"off", "open", "ret"}
              /\ build[b].reads = <<>>
              /\ build[b].saves = 0
              /\ build[b].pc = "ret" => build[b].exc = "FileNotFoundError"

C8_Witness ==
    /\ table.state = "absent"
    /\ artifact = StaleArtifact
    /\ build[Timer].pc = "ret"

\* C9: an advisory generated for an absent severity is the fallback text
C9_AbsentSeverityGivesFallback ==
    (aq.pc = "done" /\ aq.resp.status = 200 /\ aq.adviceArg = None) =>
        aq.resp.gemini_advice.text = Fallback

\* C10 as stated: a build over an existing table returns having read every
\* entry once, in mapping order, and having written the artifact once
C10_EveryEntryReadAndSaved ==
    \A b \in Builders :
        (build[b].pc = "ret" /\ table.state # "absent") =>
            /\ PlacesOf(build[b].reads) = TablePlaces(Len(table.entries))
            /\ build[b].saves = 1

\* C10 amended: a build reads the entries once each in mapping order, a read
\* that returns None included; it writes the artifact at most once and only
\* after every entry was read; over a table that parses and whose entries are
\* all well-formed it returns having read every entry, and having written
\* the artifact unless the save itself raised
C10_ReadsInOrderSavesAfterAll ==
    \A b \in Builders :
        /\ Len(build[b].reads) <= Len(table.entries)
        /\ PlacesOf(build[b].reads) = TablePlaces(Len(build[b].reads))
        /\ build[b].pc = "iter" => Len(build[b].reads) = build[b].i - 1
        /\ build[b].saves <= 1
        /\ build[b].saves = 1 => Len(build[b].reads) = Len(table.entries)
        /\ (build[b].pc = "ret" /\ WellFormedTable) =>
              /\ Len(build[b].reads) = Len(table.entries)
              /\ build[b].saves = 1 \/ build[b].exc \in {"OSError", "RenderError"}

C10_Witness ==
    /\ build[Timer].pc = "ret"
    /\ build[Timer].saves = 1
    /\ Len(build[Timer].reads) = 2
    /\ build[Timer].reads[1].aqi = None
    /\ build[Timer].reads[2].aqi # None

====
